---- MODULE Spec2Model ----
(***************************************************************************)
(* Model of the tender scraper (src/tenders.py) and of its two request     *)
(* handlers (src/app.py, src/functions/app.py).                            *)
(*                                                                         *)
(* Text is a sequence of tokens: a token is a word (or a field label) or a *)
(* run of whitespace.  The empty string is the empty sequence.  A regular  *)
(* expression search over a page's text is represented by its outcome, a   *)
(* Match: <<>> when the pattern does not match, <<g>> when it matches with *)
(* group(1) = g.  A detail blob is the record of the outcomes of the       *)
(* searches that parse_detailed_text runs over it; everything the code     *)
(* does with a capture (strip, normalise, upper/lower, fallback chains,    *)
(* conditional assignment, dict update) is modelled as the code does it.   *)
(***************************************************************************)
EXTENDS Integers, Sequences, FiniteSets, TLC

(***************************************************************************)
(* Bounds of the model.                                                    *)
(***************************************************************************)
MaxCards == 2      \* cards on one listing page
DeepPages == 6     \* listing pages a deep site can serve
MaxM == 3          \* largest max_pages a request carries

(***************************************************************************)
(* Text helpers.                                                           *)
(***************************************************************************)
Whitespace == {" ", "  ", "\n"}

EmptyStr == <<>>

\* the value of an expression, worked out once (Python works an argument out
\* before the call)
only(values) == CHOOSE v \in values : v = v

lstrip(value) ==
    only({LET kept == {i \in 1..Len(v) : v[i] \notin Whitespace}
          IN IF kept = {} THEN <<>>
             ELSE SubSeq(v, CHOOSE i \in kept : \A j \in kept : i <= j, Len(v)) :
          v \in {value}})

rstrip(value) ==
    only({LET kept == {i \in 1..Len(v) : v[i] \notin Whitespace}
          IN IF kept = {} THEN <<>>
             ELSE SubSeq(v, 1, CHOOSE i \in kept : \A j \in kept : i >= j) :
          v \in {value}})

strip(value) == rstrip(lstrip(value))

\* str.split(): the words of a text, written as their tokens in a row with
\* one marked entry between two words (where the first whitespace token of
\* the run between them stood)
split(value) ==
    only({SelectSeq([i \in 1..Len(body) |->
                        [token |-> body[i],
                         gap |-> body[i] \in Whitespace,
                         first |-> i > 1 /\ body[i] \in Whitespace
                                         /\ body[i - 1] \notin Whitespace]],
                    LAMBDA e : ~e.gap \/ e.first) :
          body \in {strip(value)}})

\* " ".join(words): one space between two words
join(words) ==
    only({[i \in 1..Len(w) |-> IF w[i].gap THEN " " ELSE w[i].token] : w \in {words}})

clean_value(value) ==
    IF value = <<>> THEN EmptyStr ELSE join(split(strip(value)))

upper(value) ==
    [i \in 1..Len(value) |->
        CASE value[i] \in {"Yes", "yes", "YES"} -> "YES"
          [] value[i] \in {"No", "no", "NO"} -> "NO"
          [] OTHER -> value[i]]

lower(value) ==
    [i \in 1..Len(value) |->
        CASE value[i] = "Foo.Bar@Example.COM" -> "foo.bar@example.com"
          [] OTHER -> value[i]]

\* number of characters of a token; a token of more than 3 characters counts
\* 3 (such tokens occur where the code compares lengths with 1 and 2 only)
TokenLen(t) ==
    CASE t \in {" ", "\n", "1", "-", "a", "b", "."} -> 1
      [] t \in {"  ", "12"} -> 2
      [] OTHER -> 3

\* len(value): one character for every token, one more for every token of
\* two or more, one more for every token of three
len(value) ==
    only({Len(v) + Cardinality({i \in 1..Len(v) : TokenLen(v[i]) >= 2})
                 + Cardinality({i \in 1..Len(v) : TokenLen(v[i]) >= 3}) :
          v \in {value}})

\* index of the first occurrence of token t in value, 0 when absent
find(value, t) ==
    only({LET at == {i \in 1..Len(v) : v[i] = t}
          IN IF at = {} THEN 0 ELSE CHOOSE i \in at : \A j \in at : i <= j :
          v \in {value}})

\* value.split(t)[0]
before(value, t) ==
    only({IF find(v, t) = 0 THEN v ELSE SubSeq(v, 1, find(v, t) - 1) : v \in {value}})

without(value, drop) == SelectSeq(value, LAMBDA t : t \notin drop)

(***************************************************************************)
(* Matches and fallback chains.                                            *)
(***************************************************************************)
NoMatch == <<>>

Matched(g) == <<g>>

\* index of the last pattern of a pattern list that matches
RECURSIVE last_match(_, _)
last_match(matches, i) ==
    IF i > Len(matches) THEN 0
    ELSE IF last_match(matches, i + 1) # 0 THEN last_match(matches, i + 1)
         ELSE IF matches[i] # NoMatch THEN i ELSE 0

\* index of the first pattern of an ordered pattern list that matches
RECURSIVE first_match(_, _)
first_match(matches, i) ==
    IF i > Len(matches) THEN 0
    ELSE IF matches[i] # NoMatch THEN i
         ELSE first_match(matches, i + 1)

(***************************************************************************)
(* Dictionaries: a dict is a function from its keys; update adds keys.     *)
(***************************************************************************)
update(d, e) ==
    only({[k \in (DOMAIN old) \cup (DOMAIN new) |-> IF k \in DOMAIN new THEN new[k] ELSE old[k]] :
          old \in {d}, new \in {e}})

set_key(d, k, v) ==
    only({[j \in (DOMAIN old) \cup {k} |-> IF j = k THEN new ELSE old[j]] :
          old \in {d}, new \in {v}})

(***************************************************************************)
(* Field extractors.  Each takes the blob (the record of search outcomes   *)
(* over the page text) and returns the field value, a Text.                *)
(***************************************************************************)
extract_department_only(text) ==
    IF text.department # NoMatch
    THEN clean_value(strip(text.department[1]))
    ELSE EmptyStr

\* lines 44-52: the seven patterns, each the labels it starts with (\s* after
\* each) and its group: "d/d" is (\d+/\d+) right after the labels, the others
\* are the groups between \b of patterns 4 to 7
patterns ==
    <<[labels |-> <<"RFQ NUMBER">>, group |-> "d/d"],
      [labels |-> <<"Request for Quotation", ":", "RFQ NUMBER">>, group |-> "d/d"],
      [labels |-> <<"Bid Number", ":">>, group |-> "L/d/d/d"],
      [labels |-> <<>>, group |-> "\\bL/d/d/d\\b"],
      [labels |-> <<>>, group |-> "\\bL/d/d\\b"],
      [labels |-> <<>>, group |-> "\\bLd/d\\b"],
      [labels |-> <<>>, group |-> "\\bd/d\\b"]>>

\* what a group captures when it is tried at the start of (for the groups
\* between \b: anywhere in) the token t
group_capture(group, t) ==
    CASE group = "d/d" /\ t \in {"12/2024", "99/2024"} -> Matched(<<t>>)
      [] group = "L/d/d/d" /\ t = "AB/1/2/3" -> Matched(<<t>>)
      [] group = "\\bL/d/d/d\\b" /\ t = "AB/1/2/3" -> Matched(<<t>>)
      [] group = "\\bL/d/d\\b" /\ t = "AB/1/2/3" -> Matched(<<"AB/1/2">>)
      [] group = "\\bL/d/d\\b" /\ t = "AB/12/2024" -> Matched(<<t>>)
      [] group = "\\bLd/d\\b" /\ t = "AB12/2024" -> Matched(<<t>>)
      [] group = "\\bd/d\\b" /\ t = "AB/1/2/3" -> Matched(<<"1/2">>)
      [] group = "\\bd/d\\b" /\ t = "AB/12/2024" -> Matched(<<"12/2024">>)
      [] group = "\\bd/d\\b" /\ t \in {"12/2024", "99/2024"} -> Matched(<<t>>)
      [] OTHER -> NoMatch

\* \s* from position k: the position of the next token that is not whitespace
RECURSIVE skip_whitespace(_, _)
skip_whitespace(text, k) ==
    IF k <= Len(text) /\ text[k] \in Whitespace THEN skip_whitespace(text, k + 1)
    ELSE k

\* the position reached when the labels match from position k on, 0 if not
RECURSIVE after_labels(_, _, _)
after_labels(labels, text, k) ==
    IF labels = <<>> THEN skip_whitespace(text, k)
    ELSE IF k <= Len(text) /\ text[k] = Head(labels)
         THEN after_labels(Tail(labels), text, skip_whitespace(text, k + 1))
         ELSE 0

match_at(pattern, text, k) ==
    LET j == after_labels(pattern.labels, text, k)
    IN IF j # 0 /\ j <= Len(text) THEN group_capture(pattern.group, text[j])
       ELSE NoMatch

\* re.search(pattern, text): the leftmost match
RECURSIVE search(_, _, _)
search(pattern, text, k) ==
    IF k > Len(text) THEN NoMatch
    ELSE IF match_at(pattern, text, k) # NoMatch THEN match_at(pattern, text, k)
         ELSE search(pattern, text, k + 1)

\* the outcomes of the seven searches on a text, in list order
bid_number_searches(text) ==
    [i \in 1..Len(patterns) |-> search(patterns[i], text, 1)]

\* text.bid_number: the outcomes of the seven patterns, in list order
extract_bid_number_only(text) ==
    LET i == first_match(text.bid_number, 1)
    IN IF i # 0 THEN text.bid_number[i][1] ELSE EmptyStr

stop_words ==
    <<"Enquiries", "Email", "Tel", "Briefing", "Department", "Bid Description",
      "Opening Date", "Closing Date", "Modified Date">>

\* lines 106-109: the first stop word of the list that occurs cuts the text
RECURSIVE cut_at_stop_word(_, _, _)
cut_at_stop_word(date_text, date_prefix, i) ==
    IF i > Len(stop_words) THEN date_text
    ELSE IF find(date_text, stop_words[i]) # 0 /\ stop_words[i] # date_prefix
         THEN strip(before(date_text, stop_words[i]))
         ELSE cut_at_stop_word(date_text, date_prefix, i + 1)

\* lines 96-109: the capture stripped, normalized and cut
date_text_of(capture, date_prefix) ==
    cut_at_stop_word(join(split(strip(capture))), date_prefix, 1)

\* lines 93-113 for the pattern list from index i on; <<>> when none returns
RECURSIVE date_from_patterns(_, _, _)
date_from_patterns(matches, date_prefix, i) ==
    IF i > Len(matches) THEN NoMatch
    ELSE IF matches[i] # NoMatch /\ len(date_text_of(matches[i][1], date_prefix)) > 1
         THEN Matched(date_text_of(matches[i][1], date_prefix))
         ELSE date_from_patterns(matches, date_prefix, i + 1)

\* text.dates[date_prefix]: [patterns: the four pattern outcomes, simple: the
\* outcome of the final single-line search]
extract_date(text, date_prefix) ==
    LET d == text.dates[date_prefix]
        r == date_from_patterns(d.patterns, date_prefix, 1)
    IN IF r # NoMatch THEN r[1]
       ELSE IF d.simple # NoMatch THEN strip(d.simple[1])
       ELSE EmptyStr

PhoneRemnants == {"011", "555", "1234", "(", ")", "-", "+"}

\* re.sub(r'@.*', '', name): everything from the first token holding an "@"
cut_at_email(name) ==
    LET at == {i \in 1..Len(name) : name[i] \in {"@", "Foo.Bar@Example.COM", "a@b.co.za"}}
    IN IF at = {} THEN name
       ELSE SubSeq(name, 1, (CHOOSE i \in at : \A j \in at : i <= j) - 1)

extract_contact_person(text) ==
    LET i == first_match(text.contact, 1)
    IN IF i # 0
       THEN clean_value(cut_at_email(without(strip(text.contact[i][1]), PhoneRemnants)))
       ELSE EmptyStr

extract_email_only(text) ==
    IF text.email_field # NoMatch THEN lower(text.email_field[1])
    ELSE IF text.email_any # NoMatch THEN lower(text.email_any[1])
    ELSE EmptyStr

extract_phone_only(text) ==
    LET i == first_match(text.tel, 1)
    IN IF i # 0
       THEN without(strip(text.tel[i][1]), {" ", "  ", "\n", "-"})
       ELSE EmptyStr

extract_description_only(text) ==
    IF text.description # NoMatch
    THEN clean_value(before(strip(text.description[1]), "Place where"))
    ELSE EmptyStr

extract_location_only(text) ==
    IF text.location # NoMatch
    THEN clean_value(before(before(strip(text.location[1]), "Opening Date"), "Closing Date"))
    ELSE EmptyStr

(***************************************************************************)
(* parse_detailed_text.  The result is [raised, fields]: raised is TRUE    *)
(* when an extractor raises (text.raises names it), and then nothing is    *)
(* returned to the caller; otherwise fields is the returned dict.          *)
(***************************************************************************)
tender_types ==
    <<"Request for Quotation", "Request for Bid(Open-Tender)",
      "Request for Bid(Limited-Tender)", "Request for Proposal">>

\* lines 217-220: the first type of the list that the text contains
tender_type_fields(text) ==
    LET found == {i \in 1..Len(tender_types) : tender_types[i] \in text.types}
    IN IF found = {} THEN <<>>
       ELSE "Tender Type" :> <<tender_types[CHOOSE i \in found : \A j \in found : i <= j]>>

\* lines 223-237
extractor_fields(text) ==
    [k \in {"Bid Number", "Department", "Bid Description",
            "Place where goods, works or services are required",
            "Opening Date", "Closing Date", "Modified Date", "Date Published",
            "Enquiries/Contact Person", "Email", "Tel"} |->
        CASE k = "Bid Number" -> extract_bid_number_only(text)
          [] k = "Department" -> extract_department_only(text)
          [] k = "Bid Description" -> extract_description_only(text)
          [] k = "Place where goods, works or services are required" ->
                extract_location_only(text)
          [] k \in {"Opening Date", "Closing Date", "Modified Date", "Date Published"} ->
                extract_date(text, k)
          [] k = "Enquiries/Contact Person" -> extract_contact_person(text)
          [] k = "Email" -> extract_email_only(text)
          [] k = "Tel" -> extract_phone_only(text)]

\* lines 241-252
briefing_flag(match) ==
    IF match # NoMatch THEN upper(match[1]) ELSE EmptyStr

\* variant: the briefing date and venue are extracted whatever the flags are
briefing_fields_unconditional(text, fields) ==
    LET i == first_match(text.briefing_date, 1)
        date == "Briefing Date" :>
                    (IF i # 0 THEN clean_value(text.briefing_date[i][1]) ELSE EmptyStr)
        venue == "Venue" :>
                    (IF text.briefing_venue # NoMatch
                     THEN clean_value(text.briefing_venue[1]) ELSE EmptyStr)
    IN update(date, venue)

\* lines 255-276, given the two flags already in fields
briefing_fields(text, fields) ==
    IF upper(fields["Briefing Session"]) = <<"YES">>
       \/ upper(fields["Compulsory Briefing"]) = <<"YES">>
    THEN LET i == first_match(text.briefing_date, 1)
             date == IF i # 0
                     THEN "Briefing Date" :> clean_value(text.briefing_date[i][1])
                     ELSE <<>>
             venue == IF text.briefing_venue # NoMatch
                      THEN "Venue" :> clean_value(text.briefing_venue[1])
                      ELSE <<>>
         IN update(date, venue)
    ELSE [k \in {"Briefing Date", "Venue"} |-> EmptyStr]

\* lines 286-287: the longest value kept whole, and what is kept of a longer
conditions_limit == 500
conditions_kept == 497
ellipsis == <<".", ".", ".">>

\* conditions[:n]: the longest prefix of whole tokens within n characters
prefix_chars(value, n) ==
    only({SubSeq(v, 1, Cardinality({k \in 1..Len(v) : len(SubSeq(v, 1, k)) <= n})) :
          v \in {value}})

\* a variant that cuts every value longer than what it keeps
conditions_fields_cut_early(text) ==
    IF text.conditions # NoMatch
    THEN LET conditions == clean_value(strip(text.conditions[1]))
         IN "Special Conditions" :>
                (IF len(conditions) > conditions_kept
                 THEN prefix_chars(conditions, conditions_kept) \o ellipsis
                 ELSE conditions)
    ELSE <<>>

\* lines 279-288
conditions_fields(text) ==
    IF text.conditions # NoMatch
    THEN LET conditions == clean_value(strip(text.conditions[1]))
         IN "Special Conditions" :>
                (IF len(conditions) > conditions_limit
                 THEN prefix_chars(conditions, conditions_kept) \o ellipsis
                 ELSE conditions)
    ELSE <<>>

parse_detailed_text(text) ==
    LET f1 == update(tender_type_fields(text), extractor_fields(text))
        f2 == update(f1, [k \in {"Briefing Session", "Compulsory Briefing"} |->
                            IF k = "Briefing Session"
                            THEN briefing_flag(text.briefing_session)
                            ELSE briefing_flag(text.compulsory_briefing)])
        f3 == update(f2, briefing_fields(text, f2))
        f4 == update(f3, conditions_fields(text))
    IN [raised |-> text.raises # "none", fields |-> f4]

(***************************************************************************)
(* scrape_tender_details.  page is what the detail URL serves:             *)
(*   status  "ok" or "error" (get_soup raises)                             *)
(*   section, tab   whether section.bg-light / the active tab pane exist   *)
(*   h3      Match: the text of the section's h3, when there is one        *)
(*   text    the blob of the tab                                           *)
(*   p_tags  the tab's p elements: [has: the date labels the p's text      *)
(*           contains, value: the text after the label]                    *)
(***************************************************************************)
DetailKeys ==
    {"Tender Type", "Bid Number", "Department", "Bid Description",
     "Place where goods, works or services are required", "Opening Date",
     "Closing Date", "Modified Date", "Date Published", "Enquiries/Contact Person",
     "Email", "Tel", "Briefing Session", "Compulsory Briefing", "Briefing Date",
     "Venue", "Special Conditions", "Description"}

\* variant: only the keys parse_detailed_text always assigns are initialised
sparse_tender_details ==
    [k \in DetailKeys \ {"Tender Type", "Briefing Date", "Venue", "Special Conditions"}
        |-> EmptyStr]

\* lines 297-316
empty_tender_details == [k \in DetailKeys |-> EmptyStr]

\* lines 353-366 for one p element
p_tag_dates(tender_details, p) ==
    IF "Opening Date:" \in p.has
    THEN IF p.value # NoMatch
         THEN set_key(tender_details, "Opening Date", strip(p.value[1]))
         ELSE tender_details
    ELSE IF "Closing Date:" \in p.has
    THEN IF p.value # NoMatch
         THEN set_key(tender_details, "Closing Date", strip(p.value[1]))
         ELSE tender_details
    ELSE IF "Modified Date:" \in p.has
    THEN IF p.value # NoMatch
         THEN set_key(tender_details, "Modified Date", strip(p.value[1]))
         ELSE tender_details
    ELSE tender_details

RECURSIVE p_tags_dates(_, _)
p_tags_dates(tender_details, p_tags) ==
    IF p_tags = <<>> THEN tender_details
    ELSE p_tags_dates(p_tag_dates(tender_details, Head(p_tags)), Tail(p_tags))

\* lines 350-366
alternative_dates(tender_details, p_tags) ==
    IF tender_details["Opening Date"] = EmptyStr \/ len(tender_details["Opening Date"]) <= 2
    THEN p_tags_dates(tender_details, p_tags)
    ELSE tender_details

\* lines 369-370
description_fallback(tender_details) ==
    IF strip(tender_details["Description"]) = EmptyStr
       /\ tender_details["Bid Description"] # EmptyStr
    THEN set_key(tender_details, "Description", tender_details["Bid Description"])
    ELSE tender_details

\* variant: the heading of the detail page is not put in the record
without_title(tender_details, h3) == tender_details

\* lines 334-336
with_title(tender_details, h3) ==
    IF h3 # NoMatch
    THEN set_key(tender_details, "Title", clean_value(strip(h3[1])))
    ELSE tender_details

\* variant: the heading is read before the tab is looked for
scrape_tender_details_title_first(page) ==
    IF page.status = "error" THEN empty_tender_details
    ELSE IF ~page.section THEN empty_tender_details
    ELSE LET titled == with_title(empty_tender_details, page.h3)
             parsed == parse_detailed_text(page.text)
         IN IF ~page.tab THEN titled
            ELSE IF parsed.raised THEN titled
            ELSE description_fallback(
                    alternative_dates(update(titled, parsed.fields), page.p_tags))

scrape_tender_details(page) ==
    IF page.status = "error" THEN empty_tender_details
    ELSE IF ~page.section THEN empty_tender_details
    ELSE IF ~page.tab THEN empty_tender_details
    ELSE LET titled == with_title(empty_tender_details, page.h3)
             parsed == parse_detailed_text(page.text)
         IN IF parsed.raised THEN titled
            ELSE description_fallback(
                    alternative_dates(update(titled, parsed.fields), page.p_tags))

(***************************************************************************)
(* The site: what the listing and detail URLs serve.                       *)
(***************************************************************************)
Origin == "https://easytenders.co.za"

\* __init__'s default base_url
default_base_url == <<Origin, "/tenders">>

\* urllib.parse.urljoin for the references the cards carry: an empty reference
\* yields the base, an absolute URL itself, a path a URL on the base's origin
urljoin(base, url) ==
    IF url = EmptyStr THEN base
    ELSE IF Head(url) = Origin THEN url
    ELSE <<Head(base)>> \o url

PageNames == <<"p1", "p2", "p3", "p4", "p5", "p6", "p7", "p8", "p9">>
CardNames == <<"c1", "c2", "c3", "c4", "c5", "c6", "c7", "c8", "c9">>

\* A card: badge (the text of its badge span, when it has one), a (the text
\* of its first link, when it has one), href (the link's href attribute, when
\* it has one).
CardHref(p, i) == <<"/tender/", PageNames[p], CardNames[i]>>
CardTitle(p, i) == <<" ", "Tender", "  ", PageNames[p], "\n", CardNames[i], "\n">>

OldCard(p, i) ==
    [badge |-> NoMatch, a |-> Matched(CardTitle(p, i)), href |-> Matched(CardHref(p, i))]
HotCard(p, i) ==
    [badge |-> Matched(<<"HOT">>), a |-> Matched(CardTitle(p, i)),
     href |-> Matched(CardHref(p, i))]
NewCard(p, i) ==
    [badge |-> Matched(<<" ", "NEW", " ">>), a |-> Matched(CardTitle(p, i)),
     href |-> Matched(CardHref(p, i))]
NewCardNoLink(p, i) ==
    [badge |-> Matched(<<"NEW">>), a |-> NoMatch, href |-> NoMatch]
NewCardNoHref(p, i) ==
    [badge |-> Matched(<<"NEW">>), a |-> Matched(CardTitle(p, i)), href |-> NoMatch]
NewCardEmptyHref(p, i) ==
    [badge |-> Matched(<<"NEW">>), a |-> Matched(CardTitle(p, i)),
     href |-> Matched(EmptyStr)]

PlainCards(p, i) == {OldCard(p, i), NewCard(p, i)}
AllCards(p, i) ==
    {OldCard(p, i), HotCard(p, i), NewCard(p, i), NewCardNoLink(p, i),
     NewCardNoHref(p, i), NewCardEmptyHref(p, i)}

\* Blobs: the outcomes of the searches over a detail text.
FullDate == <<"Friday,", " ", "12", " ", "July", " ", "2024", " ", "11:00">>
DateOf(capture) ==
    [patterns |-> <<capture, capture, capture, capture>>, simple |-> capture]
NoDate == [patterns |-> <<NoMatch, NoMatch, NoMatch, NoMatch>>, simple |-> NoMatch]

EmptyBlob ==
    [types |-> {},
     bid_number |-> <<NoMatch, NoMatch, NoMatch, NoMatch, NoMatch, NoMatch, NoMatch>>,
     department |-> NoMatch, description |-> NoMatch, location |-> NoMatch,
     dates |-> [k \in {"Opening Date", "Closing Date", "Modified Date", "Date Published"}
                  |-> NoDate],
     contact |-> <<NoMatch, NoMatch>>, email_field |-> NoMatch, email_any |-> NoMatch,
     tel |-> <<NoMatch, NoMatch, NoMatch>>,
     briefing_session |-> NoMatch, compulsory_briefing |-> NoMatch,
     briefing_date |-> <<NoMatch, NoMatch, NoMatch>>, briefing_venue |-> NoMatch,
     conditions |-> NoMatch, raises |-> "none"]

FullBlob ==
    [types |-> {"Request for Quotation"},
     bid_number |-> <<Matched(<<"12/2024">>), NoMatch, NoMatch, NoMatch, NoMatch, NoMatch,
                      Matched(<<"12/2024">>)>>,
     department |-> Matched(<<"Health", "  ", "Department", " ">>),
     description |-> Matched(<<"Supply", "\n", "of", " ", "desks", "\n">>),
     location |-> Matched(<<"Pretoria", " ">>),
     dates |-> [k \in {"Opening Date", "Closing Date", "Modified Date", "Date Published"}
                  |-> DateOf(Matched(FullDate))],
     contact |-> <<Matched(<<"Jane", " ", "Doe">>), Matched(<<"Jane", " ", "Doe">>)>>,
     email_field |-> Matched(<<"Foo.Bar@Example.COM">>),
     email_any |-> Matched(<<"a@b.co.za">>),
     tel |-> <<Matched(<<"011", " ", "555", "-", "1234">>), NoMatch, NoMatch>>,
     briefing_session |-> NoMatch, compulsory_briefing |-> NoMatch,
     briefing_date |-> <<NoMatch, NoMatch, NoMatch>>, briefing_venue |-> NoMatch,
     conditions |-> NoMatch, raises |-> "none"]

\* a text whose searches capture more than the value: a two-character opening
\* date, a closing date running into the next label, a contact with a phone
OddBlob ==
    [FullBlob EXCEPT
        !.bid_number = <<NoMatch, NoMatch, NoMatch, NoMatch, NoMatch, NoMatch,
                         Matched(<<"99/2024">>)>>,
        !.dates = [k \in {"Opening Date", "Closing Date", "Modified Date", "Date Published"}
                     |-> CASE k = "Opening Date" ->
                                [patterns |-> <<NoMatch, NoMatch, Matched(<<"12">>),
                                                Matched(<<"12">>)>>,
                                 simple |-> Matched(<<"12">>)]
                           [] k = "Closing Date" ->
                                [patterns |-> <<NoMatch, NoMatch,
                                                Matched(<<"12", " ", "July", " ", "Enquiries",
                                                          " ", "Jane">>), NoMatch>>,
                                 simple |-> NoMatch]
                           [] OTHER -> NoDate],
        !.description = NoMatch,
        !.contact = <<NoMatch, Matched(<<"Jane", " ", "011", " ", "@", "b.co.za">>)>>,
        !.email_field = NoMatch]

Blobs ==
    {[base EXCEPT !.types = ty, !.briefing_session = bs, !.compulsory_briefing = cb,
                  !.briefing_date = bd, !.briefing_venue = bv, !.conditions = sc,
                  !.raises = rs] :
        base \in {EmptyBlob, FullBlob, OddBlob},
        ty \in {{}, {"Request for Proposal", "Request for Bid(Open-Tender)"}},
        bs \in {NoMatch, Matched(<<"Yes">>), Matched(<<"no">>)},
        cb \in {NoMatch, Matched(<<"YES">>), Matched(<<"No">>)},
        bd \in {<<NoMatch, NoMatch, NoMatch>>,
                <<NoMatch, Matched(<<"15", " ", "July", "  ", "2024">>),
                  Matched(<<"15", " ", "July", "  ", "2024", " ", "at", " ", "10:00">>)>>},
        bv \in {NoMatch, Matched(<<"Town", "\n", "Hall">>)},
        sc \in {NoMatch, Matched(<<" ", "Bring", "  ", "ID", "\n">>)},
        rs \in {"none", "extract_date", "extract_email_only"}}

\* Detail pages.
ErrorPage ==
    [status |-> "error", section |-> FALSE, tab |-> FALSE, h3 |-> NoMatch,
     text |-> EmptyBlob, p_tags |-> <<>>]
OkPage(section, tab, h3, text, p_tags) ==
    [status |-> "ok", section |-> section, tab |-> tab, h3 |-> h3, text |-> text,
     p_tags |-> p_tags]

DetailHeading == Matched(<<"Detail", "  ", "Heading">>)
DateParagraphs ==
    <<[has |-> {"Opening Date:"}, value |-> Matched(<<"13", " ", "July", " ", "2024", " ">>)],
      [has |-> {"Closing Date:", "Modified Date:"}, value |-> Matched(<<"20", " ", "July">>)],
      [has |-> {"Modified Date:"}, value |-> NoMatch]>>

PlainPage == OkPage(TRUE, TRUE, NoMatch, FullBlob, <<>>)

PlainDetails == {PlainPage}
WideDetails ==
    {ErrorPage, OkPage(FALSE, FALSE, NoMatch, EmptyBlob, <<>>),
     OkPage(TRUE, FALSE, DetailHeading, EmptyBlob, <<>>), PlainPage,
     OkPage(TRUE, TRUE, DetailHeading, FullBlob, <<>>)}
AllDetails ==
    WideDetails \cup
    {OkPage(TRUE, TRUE, h3, text, p_tags) :
        h3 \in {NoMatch, DetailHeading}, text \in Blobs, p_tags \in {<<>>, DateParagraphs}}

\* Sites: depth (the listing pages that hold cards), wide (the leading pages
\* that hold up to width cards of any shape; the others hold one plain card),
\* details (the detail pages the site serves).
DeepSite == [name |-> "deep", depth |-> DeepPages, wide |-> 0, width |-> 1]
WideSite == [name |-> "wide", depth |-> 2, wide |-> 1, width |-> MaxCards]
DetailSite == [name |-> "detail", depth |-> 1, wide |-> 1, width |-> 1]
Sites == {DeepSite, WideSite, DetailSite}

SiteDetails(s) ==
    CASE s.name = "deep" -> PlainDetails
      [] s.name = "wide" -> WideDetails
      [] s.name = "detail" -> AllDetails

SiteCards(s, p, i) ==
    CASE s.name = "detail" -> {NewCard(p, i)}
      [] p <= s.wide -> AllCards(p, i)
      [] OTHER -> PlainCards(p, i)

SiteWidth(s, p) == IF p <= s.wide THEN s.width ELSE 1

\* the card lists listing page p of site s can hold
RECURSIVE CardLists(_, _, _)
CardLists(s, p, n) ==
    IF n = 0 THEN {<<>>}
    ELSE {Append(cs, c) : cs \in CardLists(s, p, n - 1), c \in SiteCards(s, p, n)}

SitePages(s, p) ==
    IF p > s.depth THEN {}
    ELSE UNION {CardLists(s, p, n) : n \in 1..SiteWidth(s, p)}

(***************************************************************************)
(* State.                                                                  *)
(*   handler, max_pages   the request: which handler serves it and the     *)
(*                        max_pages its body carries                       *)
(*   site                 the site crawled                                 *)
(*   pc                   position: "request", "fetch" (top of the while   *)
(*                        loop), "cards" (in the for loop), "sleep",       *)
(*                        "done" (scrape_tenders returned self.tenders),   *)
(*                        "failed" (the handler answered 500)              *)
(*   base_url, tenders    the scraper's fields                             *)
(*   page_num, page_new_tenders_found, any_new_tenders_found, tender_cards,*)
(*   card_idx             scrape_tenders' locals (card_idx: the for loop)  *)
(* History, for stating the properties:                                    *)
(*   list_fetches, detail_fetches   get_soup calls issued so far           *)
(*   delayed              a sleep has run since the last detail fetch      *)
(*   all_new              every listing fetch so far returned a page with  *)
(*                        a card carrying the NEW badge                    *)
(*   no_new_page          a listing fetch returned a page without any      *)
(*   seen                 the cards the for loop has handled, with place   *)
(*   failed_at            the page whose listing fetch raised, else 0      *)
(*   last_detail          the page the last detail fetch was served        *)
(*   invocation           which call of scrape_tenders on the scraper this *)
(*                        is (1 for the one call every handler makes)      *)
(* A call of one extractor on its own:                                     *)
(*   call                 the function called and its argument             *)
(*   result               what it returned                                 *)
(***************************************************************************)
VARIABLES handler, max_pages, site, pc, base_url, tenders, page_num,
          page_new_tenders_found, any_new_tenders_found, tender_cards, card_idx,
          list_fetches, detail_fetches, delayed, all_new, no_new_page, seen,
          failed_at, last_detail, invocation, call, result

vars ==
    <<handler, max_pages, site, pc, base_url, tenders, page_num,
      page_new_tenders_found, any_new_tenders_found, tender_cards, card_idx,
      list_fetches, detail_fetches, delayed, all_new, no_new_page, seen, failed_at,
      last_detail, invocation, call, result>>

request_vars == <<handler, max_pages, site, base_url>>
loop_vars == <<page_num, page_new_tenders_found, any_new_tenders_found, tender_cards, card_idx>>
history_vars ==
    <<list_fetches, detail_fetches, delayed, all_new, no_new_page, seen, failed_at,
      last_detail>>
call_vars == <<invocation, call, result>>

\* no extractor is called on its own; a call that has not returned
NoCall == [fn |-> "none", arg |-> <<>>]
Pending == [returned |-> FALSE, value |-> <<>>]

\* line 442: the page limit
page_limit == 5

\* lines 404-405
is_new(card) ==
    card.badge # NoMatch /\ find(card.badge[1], "NEW") # 0

\* lines 410-420: the stub of a card that has a link
stub(base, card) ==
    [k \in {"URL", "Title", "New"} |->
        CASE k = "URL" ->
                urljoin(base, IF card.href # NoMatch THEN card.href[1] ELSE EmptyStr)
          [] k = "Title" -> clean_value(strip(card.a[1]))
          [] k = "New" -> TRUE]

\* line 423
has_url(tender_info) == tender_info["URL"] # EmptyStr

\* variant: the record is put in front
prepend_tender(list, tender_info) == <<tender_info>> \o list

\* line 428
append_tender(list, tender_info) == Append(list, tender_info)

\* variant: no sleep after a detail fetch that raised
after_append_no_sleep_on_error(page) ==
    IF page.status = "error" THEN "cards" ELSE "sleep"

\* line 431: where the loop stands once the record is appended, whatever the
\* detail page was
after_append(page) == "sleep"

\* variant: a page without new cards does not end the crawl
never_stops(page_new) == FALSE

\* line 434
stops_without_new(page_new) == ~page_new

\* variant: no page limit
limit_never_reached(n) == FALSE

\* line 442
limit_reached(n) == n > page_limit

\* variant: a failed listing fetch returns empty-handed
tenders_dropped_on_error(list) == <<>>

\* lines 446-448, 454: what a failed listing fetch leaves to return
tenders_after_error(list) == list

HasNew(cards) == \E i \in 1..Len(cards) : is_new(cards[i])

Init ==
    /\ handler \in {"app", "functions"}
    /\ max_pages \in 1..MaxM
    /\ site \in Sites
    /\ pc = "request"
    /\ base_url = default_base_url
    /\ tenders = <<>>
    /\ page_num = 1
    /\ page_new_tenders_found = FALSE
    /\ any_new_tenders_found = FALSE
    /\ tender_cards = <<>>
    /\ card_idx = 1
    /\ list_fetches = 0
    /\ detail_fetches = 0
    /\ delayed = FALSE
    /\ all_new = TRUE
    /\ no_new_page = FALSE
    /\ seen = <<>>
    /\ failed_at = 0
    /\ last_detail = ErrorPage
    /\ invocation = 1
    /\ call = NoCall
    /\ result = Pending

\* src/app.py:41: TenderScraper(max_pages=max_pages); __init__ takes no such
\* parameter, the call raises TypeError and the handler answers 500
ConstructRejected ==
    /\ pc = "request"
    /\ handler = "app"
    /\ pc' = "failed"
    /\ UNCHANGED <<request_vars, call_vars, tenders, loop_vars, history_vars>>

\* src/functions/app.py:20-21: TenderScraper().scrape_tenders(); the body of
\* the request is not read
Start ==
    /\ pc = "request"
    /\ handler = "functions"
    /\ tenders' = <<>>
    /\ page_num' = 1
    /\ any_new_tenders_found' = FALSE
    /\ pc' = "fetch"
    /\ UNCHANGED <<request_vars, call_vars, page_new_tenders_found, tender_cards, card_idx, history_vars>>

\* lines 387-388, 446-448: get_soup raises
FetchPageError ==
    /\ pc = "fetch"
    /\ page_new_tenders_found' = FALSE
    /\ list_fetches' = list_fetches + 1
    /\ all_new' = FALSE
    /\ failed_at' = page_num
    /\ tenders' = tenders_after_error(tenders)
    /\ pc' = "done"
    /\ UNCHANGED <<request_vars, call_vars, page_num, any_new_tenders_found, tender_cards, card_idx,
                   detail_fetches, delayed, no_new_page, seen, last_detail>>

\* lines 391-394: the page has no section.bg-light
SectionNotFound ==
    /\ pc = "fetch"
    /\ page_new_tenders_found' = FALSE
    /\ list_fetches' = list_fetches + 1
    /\ all_new' = FALSE
    /\ no_new_page' = TRUE
    /\ pc' = "done"
    /\ UNCHANGED <<request_vars, call_vars, tenders, page_num, any_new_tenders_found, tender_cards,
                   card_idx, detail_fetches, delayed, seen, failed_at, last_detail>>

\* lines 397-400: the section holds no card
NoCardsFound ==
    /\ pc = "fetch"
    /\ page_new_tenders_found' = FALSE
    /\ list_fetches' = list_fetches + 1
    /\ all_new' = FALSE
    /\ no_new_page' = TRUE
    /\ tender_cards' = <<>>
    /\ pc' = "done"
    /\ UNCHANGED <<request_vars, call_vars, tenders, page_num, any_new_tenders_found, card_idx,
                   detail_fetches, delayed, seen, failed_at, last_detail>>

\* lines 383-402: the page holds cards
FetchPage ==
    /\ pc = "fetch"
    /\ \E cards \in SitePages(site, page_num) :
        /\ tender_cards' = cards
        /\ all_new' = (all_new /\ HasNew(cards))
        /\ no_new_page' = ~HasNew(cards)
    /\ page_new_tenders_found' = FALSE
    /\ card_idx' = 1
    /\ list_fetches' = list_fetches + 1
    /\ pc' = "cards"
    /\ UNCHANGED <<request_vars, call_vars, tenders, page_num, any_new_tenders_found, detail_fetches,
                   delayed, seen, failed_at, last_detail>>

Handled(card) ==
    Append(seen, [page |-> page_num, idx |-> card_idx, card |-> card,
                  invocation |-> invocation])

\* lines 402-405: a card without the NEW badge
CardNotNew ==
    /\ pc = "cards"
    /\ card_idx <= Len(tender_cards)
    /\ ~is_new(tender_cards[card_idx])
    /\ card_idx' = card_idx + 1
    /\ seen' = Handled(tender_cards[card_idx])
    /\ UNCHANGED <<request_vars, call_vars, pc, tenders, page_num, page_new_tenders_found,
                   any_new_tenders_found, tender_cards, list_fetches, detail_fetches,
                   delayed, all_new, no_new_page, failed_at, last_detail>>

\* lines 405-423: a new card without a link, or whose URL is empty
CardWithoutUrl ==
    /\ pc = "cards"
    /\ card_idx <= Len(tender_cards)
    /\ LET card == tender_cards[card_idx] IN
        /\ is_new(card)
        /\ card.a = NoMatch \/ ~has_url(stub(base_url, card))
        /\ seen' = Handled(card)
    /\ page_new_tenders_found' = TRUE
    /\ any_new_tenders_found' = TRUE
    /\ card_idx' = card_idx + 1
    /\ UNCHANGED <<request_vars, call_vars, pc, tenders, page_num, tender_cards, list_fetches,
                   detail_fetches, delayed, all_new, no_new_page, failed_at, last_detail>>

\* lines 405-428: a new card with a URL: the detail page is fetched and the
\* record appended
CardDetail ==
    /\ pc = "cards"
    /\ card_idx <= Len(tender_cards)
    /\ LET card == tender_cards[card_idx] IN
        /\ is_new(card)
        /\ card.a # NoMatch
        /\ has_url(stub(base_url, card))
        /\ seen' = Handled(card)
        /\ \E page \in SiteDetails(site) :
            /\ tenders' = append_tender(tenders,
                                        update(stub(base_url, card), scrape_tender_details(page)))
            /\ pc' = after_append(page)
            /\ last_detail' = page
    /\ page_new_tenders_found' = TRUE
    /\ any_new_tenders_found' = TRUE
    /\ detail_fetches' = detail_fetches + 1
    /\ delayed' = FALSE
    /\ card_idx' = IF pc' = "sleep" THEN card_idx ELSE card_idx + 1
    /\ UNCHANGED <<request_vars, call_vars, page_num, tender_cards, list_fetches, all_new,
                   no_new_page, failed_at>>

\* line 431
Sleep ==
    /\ pc = "sleep"
    /\ delayed' = TRUE
    /\ card_idx' = card_idx + 1
    /\ pc' = "cards"
    /\ UNCHANGED <<request_vars, call_vars, tenders, page_num, page_new_tenders_found,
                   any_new_tenders_found, tender_cards, list_fetches, detail_fetches,
                   all_new, no_new_page, seen, failed_at, last_detail>>

\* lines 434-436
NoNewOnPage ==
    /\ pc = "cards"
    /\ card_idx > Len(tender_cards)
    /\ stops_without_new(page_new_tenders_found)
    /\ pc' = "done"
    /\ UNCHANGED <<request_vars, call_vars, tenders, loop_vars, history_vars>>

\* lines 439-442, the limit not reached
NextPage ==
    /\ pc = "cards"
    /\ card_idx > Len(tender_cards)
    /\ ~stops_without_new(page_new_tenders_found)
    /\ ~limit_reached(page_num + 1)
    /\ page_num' = page_num + 1
    /\ pc' = "fetch"
    /\ UNCHANGED <<request_vars, call_vars, tenders, page_new_tenders_found, any_new_tenders_found,
                   tender_cards, card_idx, history_vars>>

\* lines 439-444
PageLimitReached ==
    /\ pc = "cards"
    /\ card_idx > Len(tender_cards)
    /\ ~stops_without_new(page_new_tenders_found)
    /\ limit_reached(page_num + 1)
    /\ page_num' = page_num + 1
    /\ pc' = "done"
    /\ UNCHANGED <<request_vars, call_vars, tenders, page_new_tenders_found, any_new_tenders_found,
                   tender_cards, card_idx, history_vars>>

Next ==
    \/ ConstructRejected
    \/ Start
    \/ FetchPageError
    \/ SectionNotFound
    \/ NoCardsFound
    \/ FetchPage
    \/ CardNotNew
    \/ CardWithoutUrl
    \/ CardDetail
    \/ Sleep
    \/ NoNewOnPage
    \/ NextPage
    \/ PageLimitReached

Spec == Init /\ [][Next]_vars

\* the crawl of the deep and the wide site, for one max_pages (no step reads
\* it); get_soup returns or raises and time.sleep returns: a step that can be
\* taken is taken
InitCrawl ==
    /\ Init
    /\ site \in {DeepSite, WideSite}
    /\ max_pages = 1

FairSpec == InitCrawl /\ [][Next]_vars /\ WF_vars(Next)

(***************************************************************************)
(* A scraper that is kept and asked to scrape again.  No handler of src/   *)
(* does so (each builds a fresh TenderScraper), a caller of the class can: *)
(* scrape_tenders is a public method and self.tenders is assigned in       *)
(* __init__ only.                                                          *)
(***************************************************************************)
MaxInvocations == 2

\* lines 377-383 on a scraper whose scrape_tenders has returned: the locals
\* start afresh, self.tenders is not touched
ScrapeAgain ==
    /\ pc = "done"
    /\ invocation < MaxInvocations
    /\ invocation' = invocation + 1
    /\ page_num' = 1
    /\ any_new_tenders_found' = FALSE
    /\ pc' = "fetch"
    /\ UNCHANGED <<request_vars, call, result, tenders, page_new_tenders_found,
                   tender_cards, card_idx, history_vars>>

\* the caller of the class: TenderScraper() as in src/functions/app.py, the
\* deep site
InitReuse ==
    /\ Init
    /\ handler = "functions"
    /\ site = DeepSite

NextReuse ==
    \/ Start
    \/ FetchPageError
    \/ SectionNotFound
    \/ NoCardsFound
    \/ FetchPage
    \/ CardNotNew
    \/ CardDetail
    \/ Sleep
    \/ NoNewOnPage
    \/ NextPage
    \/ PageLimitReached
    \/ ScrapeAgain

ReuseSpec == InitReuse /\ [][NextReuse]_vars

(***************************************************************************)
(* One extractor called on its own, on a text given character by           *)
(* character (every token is one character).                               *)
(***************************************************************************)
LengthMargin == 4

\* the lengths tried: the short ones and those around the limit
ConditionsLengths ==
    (0..LengthMargin)
        \cup ((conditions_limit - LengthMargin)..(conditions_limit + LengthMargin))

\* a text of n characters without double or outer whitespace: one word
\* ("solid") or words of two letters ("words")
ConditionsText(shape, n) ==
    [i \in 1..n |->
        IF shape = "words" /\ i % 3 = 0 /\ i < n THEN " "
        ELSE IF i % 2 = 0 THEN "b" ELSE "a"]

\* such words as a page writes them in n characters: a space and a line
\* break between two words, whitespace at the end
PaddedText(n) ==
    [i \in 1..n |->
        CASE i % 4 = 3 -> " "
          [] i % 4 = 0 -> "\n"
          [] i % 4 = 1 -> "a"
          [] OTHER -> "b"]

\* what group(1) of conditions_pattern can hold
ConditionsCaptures ==
    {ConditionsText(shape, n) : shape \in {"solid", "words"}, n \in ConditionsLengths}
        \cup {PaddedText((4 * n) \div 3) : n \in ConditionsLengths}

\* texts of a few items with one space between two items
MaxItems == 3

spaced(items) ==
    [i \in 1..(2 * Len(items) - 1) |-> IF i % 2 = 1 THEN items[(i + 1) \div 2] ELSE " "]

Texts(vocabulary) ==
    {spaced(items) : items \in UNION {[1..n -> vocabulary] : n \in 0..MaxItems}}

BidVocabulary ==
    {"RFQ NUMBER", "Request for Quotation", ":", "Bid Number", "ref",
     "12/2024", "99/2024", "AB/1/2/3", "AB/12/2024", "AB12/2024"}

\* what can follow "Closing Date:" on its line: words, a number, other labels
\* and the label itself
DateVocabulary ==
    {"TBC", "011", "Tel", "Email", "Briefing", "Opening Date", "Closing Date"}

\* lines 82-96, 116: the outcomes of the searches on a text that is the line
\* "Closing Date: " + line. Patterns 1 and 2 want a day name or digits and a
\* month right after the colon; patterns 3 and 4 and the final search capture
\* the rest of the line (it holds no double space)
date_searches(line) ==
    IF line = <<>> THEN NoDate
    ELSE [patterns |-> <<NoMatch, NoMatch, Matched(line), Matched(line)>>,
          simple |-> Matched(line)]

Calls ==
    {[fn |-> "parse_detailed_text", arg |-> t] : t \in ConditionsCaptures}
        \cup {[fn |-> "extract_date", arg |-> t] : t \in Texts(DateVocabulary)}
        \cup {[fn |-> "extract_bid_number_only", arg |-> t] : t \in Texts(BidVocabulary)}

InitExtract ==
    /\ handler = "functions"
    /\ max_pages = 1
    /\ site = DeepSite
    /\ pc = "extract"
    /\ base_url = default_base_url
    /\ tenders = <<>>
    /\ page_num = 1
    /\ page_new_tenders_found = FALSE
    /\ any_new_tenders_found = FALSE
    /\ tender_cards = <<>>
    /\ card_idx = 1
    /\ list_fetches = 0
    /\ detail_fetches = 0
    /\ delayed = FALSE
    /\ all_new = TRUE
    /\ no_new_page = FALSE
    /\ seen = <<>>
    /\ failed_at = 0
    /\ last_detail = ErrorPage
    /\ invocation = 1
    /\ call \in Calls
    /\ result = Pending

Returned(value) == [returned |-> TRUE, value |-> value]

\* lines 205-290 on a blob whose only label is Special Conditions
ParseConditions ==
    /\ pc = "extract"
    /\ call.fn = "parse_detailed_text"
    /\ ~result.returned
    /\ result' =
          Returned(parse_detailed_text(
              [EmptyBlob EXCEPT !.conditions = Matched(call.arg)]).fields["Special Conditions"])
    /\ UNCHANGED <<request_vars, invocation, call, pc, tenders, loop_vars, history_vars>>

\* lines 41-58
BidNumber ==
    /\ pc = "extract"
    /\ call.fn = "extract_bid_number_only"
    /\ ~result.returned
    /\ result' =
          Returned(extract_bid_number_only(
              [EmptyBlob EXCEPT !.bid_number = bid_number_searches(call.arg)]))
    /\ UNCHANGED <<request_vars, invocation, call, pc, tenders, loop_vars, history_vars>>

\* lines 72-120, date_prefix = "Closing Date"
ExtractDate ==
    /\ pc = "extract"
    /\ call.fn = "extract_date"
    /\ ~result.returned
    /\ result' =
          Returned(extract_date(
              [EmptyBlob EXCEPT !.dates["Closing Date"] = date_searches(call.arg)],
              "Closing Date"))
    /\ UNCHANGED <<request_vars, invocation, call, pc, tenders, loop_vars, history_vars>>

NextExtract ==
    \/ ParseConditions
    \/ ExtractDate
    \/ BidNumber

ExtractSpec == InitExtract /\ [][NextExtract]_vars

(***************************************************************************)
(* Properties.                                                             *)
(***************************************************************************)
HasLink(card) == card.a # NoMatch

\* the handled cards that carry the NEW badge / that also have a link
NewSeen == SelectSeq(seen, LAMBDA e : is_new(e.card))
LinkedNewSeen == SelectSeq(seen, LAMBDA e : is_new(e.card) /\ HasLink(e.card))

LastTender == tenders[Len(tenders)]

\* C1: with max_pages = M configured by the request, a crawl of a site whose
\* every listing page holds a new card issues at most M listing fetches.
C1_PageCeiling ==
    all_new => list_fetches <= max_pages

\* C2 as stated: once a listing page without a NEW card has been fetched the
\* returned results hold exactly one record per new card of the earlier pages.
C2_OneRecordPerNewCard ==
    (pc = "done" /\ no_new_page) => Len(tenders) = Len(NewSeen)

C2_Count ==
    (pc = "done" /\ no_new_page) => Len(tenders) = Len(LinkedNewSeen)

C2_NoFetchAfter ==
    [][no_new_page =>
        /\ list_fetches' = list_fetches
        /\ detail_fetches' = detail_fetches
        /\ tenders' = tenders]_vars

\* C2 amended: once a fetched listing page holds no card with the NEW badge, no
\* listing page and no detail page is fetched afterwards, and the returned
\* results hold exactly one record per new card of the earlier pages that has
\* a link (a new card without a link yields no record).
C2_StopsAtPageWithoutNew == []C2_Count /\ C2_NoFetchAfter

\* a crawl that ended at a second page without new cards, with records of the
\* first
C2_Witness ==
    /\ pc = "done"
    /\ no_new_page
    /\ page_num = 2
    /\ list_fetches = 2
    /\ Len(tenders) >= 1
    /\ Len(tender_cards) >= 1

C3_DiscoveryOrder ==
    /\ Len(tenders) = Len(LinkedNewSeen)
    /\ \A k \in 1..Len(tenders) :
        tenders[k]["URL"] = stub(base_url, LinkedNewSeen[k].card)["URL"]
    /\ \A j, k \in 1..Len(seen) :
        j < k => \/ seen[j].page < seen[k].page
                 \/ seen[j].page = seen[k].page /\ seen[j].idx < seen[k].idx

C3_NeverMoves ==
    [][\A k \in 1..Len(tenders) : Len(tenders') >= k /\ tenders'[k] = tenders[k]]_vars

\* C3: at every point the results list the records in discovery order (page
\* ascending, then card order within the page), and a record once appended
\* keeps its position.
C3_ResultsInDiscoveryOrder == []C3_DiscoveryOrder /\ C3_NeverMoves

\* records of two cards of the first page followed by one of the second
C3_Witness ==
    /\ Len(tenders) >= 3
    /\ LinkedNewSeen[1].page = 1
    /\ LinkedNewSeen[2].page = 1
    /\ LinkedNewSeen[3].page = 2

\* lines 466-488: the 21 columns of a record
Columns == DetailKeys \cup {"Title", "URL", "New"}

\* the detail step failed: the fetch raised, or the container or tab is absent
DetailFailed(page) == page.status = "error" \/ ~page.section \/ ~page.tab

\* the detail step reached parse_detailed_text
DetailParsed(page) == ~DetailFailed(page)

\* the card whose detail fetch has just been made (the loop sleeps on it)
CurrentCard == tender_cards[card_idx]

\* C4: every record of the results holds the 21 fields of the schema, each
\* with a defined value, whatever happened in its detail step.
C4_FullSchema ==
    \A k \in 1..Len(tenders) :
        /\ DOMAIN tenders[k] = Columns
        /\ tenders[k]["New"] = TRUE
        /\ \A f \in Columns \ {"New"} : tenders[k][f] \in Seq(STRING)

\* a record of a parse that assigned no tender type, no special conditions and,
\* the briefing being YES, neither briefing date nor venue
C4_Witness ==
    /\ pc = "sleep"
    /\ DetailParsed(last_detail)
    /\ last_detail.text.raises = "none"
    /\ last_detail.text.types = {}
    /\ last_detail.text.conditions = NoMatch
    /\ last_detail.text.briefing_venue = NoMatch
    /\ first_match(last_detail.text.briefing_date, 1) = 0
    /\ LastTender["Briefing Session"] = <<"YES">>
    /\ LastTender["Department"] # EmptyStr

\* C5: a record whose Briefing Session and Compulsory Briefing are both not
\* "YES" has an empty Briefing Date and an empty Venue, whatever Date: or
\* Venue: text the blob holds.
C5_NoBriefingNoDateNorVenue ==
    \A k \in 1..Len(tenders) :
        (tenders[k]["Briefing Session"] # <<"YES">>
         /\ tenders[k]["Compulsory Briefing"] # <<"YES">>)
        => (tenders[k]["Briefing Date"] = EmptyStr /\ tenders[k]["Venue"] = EmptyStr)

\* a parsed blob with Date: and Venue: text and a Briefing Session of "no"
C5_Witness ==
    /\ pc = "sleep"
    /\ DetailParsed(last_detail)
    /\ last_detail.text.raises = "none"
    /\ first_match(last_detail.text.briefing_date, 1) # 0
    /\ last_detail.text.briefing_venue # NoMatch
    /\ LastTender["Briefing Session"] = <<"NO">>
    /\ LastTender["Compulsory Briefing"] = EmptyStr
    /\ LastTender["Department"] # EmptyStr

C6_ReturnsEarlierPages ==
    failed_at # 0 =>
        /\ pc = "done"
        /\ list_fetches = failed_at
        /\ \A j \in 1..Len(seen) : seen[j].page < failed_at
        /\ Len(tenders) = Len(LinkedNewSeen)
        /\ \A k \in 1..Len(tenders) :
            tenders[k]["URL"] = stub(base_url, LinkedNewSeen[k].card)["URL"]

C6_EndsAtOnce ==
    [][/\ failed_at' # failed_at => (tenders' = tenders /\ pc' = "done")
       /\ failed_at # 0 =>
            /\ tenders' = tenders
            /\ list_fetches' = list_fetches
            /\ detail_fetches' = detail_fetches]_vars

\* C6: when the fetch of listing page k raises, the crawl ends at once, no
\* fetch follows, and the results returned are the records of pages 1..k-1,
\* unaltered.
C6_ListingErrorEndsCrawl == []C6_ReturnsEarlierPages /\ C6_EndsAtOnce

\* the fetch of page 2 failed after page 1 gave records
C6_Witness ==
    /\ failed_at = 2
    /\ pc = "done"
    /\ Len(tenders) >= 1

C7_PartialRecord ==
    (pc = "sleep" /\ DetailFailed(last_detail)) =>
        /\ \A k \in DetailKeys : LastTender[k] = EmptyStr
        /\ LastTender["Title"] = stub(base_url, CurrentCard)["Title"]
        /\ LastTender["URL"] = stub(base_url, CurrentCard)["URL"]

C7_GoesOn ==
    [][/\ detail_fetches' > detail_fetches =>
            /\ Len(tenders') = Len(tenders) + 1
            /\ page_new_tenders_found'
            /\ pc' = "sleep"
       /\ pc = "sleep" => (pc' = "cards" /\ card_idx' = card_idx + 1)]_vars

\* C7: when the detail step of a new stub fails, a record is still appended,
\* with the 18 detail fields empty and the stub's Title and URL, and the crawl
\* goes on as after a successful detail step.
C7_DetailFailureKeepsRecord == []C7_PartialRecord /\ C7_GoesOn

\* the crawl is fetching page 2 after the last detail step of page 1 failed
C7_Witness ==
    /\ pc = "fetch"
    /\ page_num = 2
    /\ detail_fetches >= 1
    /\ DetailFailed(last_detail)
    /\ \A k \in DetailKeys : LastTender[k] = EmptyStr

\* C8: when one extractor raises during the parse, the other fields of the
\* record hold what their extractors return for the blob.
C8_OtherFieldsKept ==
    (pc = "sleep" /\ DetailParsed(last_detail) /\ last_detail.text.raises # "none") =>
        \A k \in {"Bid Number", "Department", "Bid Description", "Tel",
                  "Place where goods, works or services are required"} :
            LastTender[k] = extractor_fields(last_detail.text)[k]

HasHref(card) == card.href # NoMatch /\ card.href[1] # EmptyStr

\* C9: a new card without a link, or whose link has no or an empty href, gets
\* no detail fetch and no record; every detail fetch is for a URL taken from a
\* card's non-empty href.
C9_OnlyCardsWithHref ==
    /\ pc = "sleep" => HasHref(CurrentCard)
    /\ Len(tenders) =
        Len(SelectSeq(seen, LAMBDA e : is_new(e.card) /\ HasLink(e.card) /\ HasHref(e.card)))
    /\ detail_fetches = Len(tenders)

\* C10: a delay step occurs between any two consecutive detail fetches.
C10_DelayBetweenDetailFetches ==
    [][detail_fetches' > detail_fetches => (detail_fetches = 0 \/ delayed)]_vars

\* the first detail fetch of page 2 was made after the last one of page 1,
\* which had raised
C10_Witness ==
    /\ pc = "sleep"
    /\ site.name = "wide"
    /\ page_num = 2
    /\ detail_fetches >= 2
    /\ LinkedNewSeen[Len(LinkedNewSeen) - 1].page = 1
    /\ tenders[Len(tenders) - 1]["Department"] = EmptyStr

\* the records the current invocation of scrape_tenders has discovered: the
\* linked new cards its for loop has handled
OwnSeen == SelectSeq(LinkedNewSeen, LAMBDA e : e.invocation = invocation)

\* C11: the results returned by one invocation of scrape_tenders hold only
\* records discovered during that invocation: a second invocation on the same
\* scraper starts from an empty result sequence (at its first listing fetch
\* tenders is empty) and returns no record of the first (what it returns has
\* one record per linked new card it handled itself).
C11_OnlyOwnRecords ==
    /\ (invocation > 1 /\ pc = "fetch" /\ page_num = 1) => tenders = <<>>
    /\ pc = "done" => Len(tenders) = Len(OwnSeen)

\* C12: the Special Conditions value of parse_detailed_text has at most
\* 500 + 3 characters; when the normalized text after the label is longer than
\* 500 characters the value ends with "..." and its first 497 characters are
\* the first 497 characters of the normalized text; when it has 500 characters
\* or fewer the value is the normalized text unchanged.
C12_ConditionsTruncated ==
    (call.fn = "parse_detailed_text" /\ result.returned) =>
        LET normalized == clean_value(strip(call.arg))
            value == result.value
        IN /\ Len(value) <= 500 + 3
           /\ Len(normalized) > 500 =>
                 /\ SubSeq(value, Len(value) - 2, Len(value)) = <<".", ".", ".">>
                 /\ SubSeq(value, 1, 497) = SubSeq(normalized, 1, 497)
           /\ Len(normalized) <= 500 => value = normalized

\* a normalized text of 501 characters has been cut to 500
C12_Witness ==
    /\ call.fn = "parse_detailed_text"
    /\ result.returned
    /\ Len(clean_value(strip(call.arg))) = 501
    /\ Len(result.value) = 500
    /\ result.value[500] = "."

\* C13: extract_bid_number_only returns the capture of the lowest-index
\* pattern of its pattern list that matches anywhere in the text, wherever the
\* matches of later patterns stand; a text holding "RFQ NUMBER 12/2024" and a
\* bare "99/2024", before or after it, yields "12/2024"; the empty string is
\* returned only when no pattern matches.
C13_LowestIndexPatternWins ==
    (call.fn = "extract_bid_number_only" /\ result.returned) =>
        LET matching == {i \in 1..Len(patterns) : search(patterns[i], call.arg, 1) # NoMatch}
        IN /\ \A i \in matching :
                (\A j \in matching : i <= j)
                    => result.value = search(patterns[i], call.arg, 1)[1]
           /\ result.value = EmptyStr <=> matching = {}
           /\ call.arg \in {<<"99/2024", " ", "RFQ NUMBER", " ", "12/2024">>,
                             <<"RFQ NUMBER", " ", "12/2024", " ", "99/2024">>}
                 => result.value = <<"12/2024">>

\* the bare number stands first in the text and the RFQ NUMBER capture is
\* returned
C13_Witness ==
    /\ call = [fn |-> "extract_bid_number_only",
               arg |-> <<"99/2024", " ", "RFQ NUMBER", " ", "12/2024">>]
    /\ result.returned
    /\ result.value = <<"12/2024">>

\* the labels of the stop list other than the field being extracted
OtherLabels(date_prefix) ==
    {stop_words[i] : i \in 1..Len(stop_words)} \ {date_prefix}

\* the positions of a text that hold such a label
LabelsIn(value, date_prefix) ==
    {i \in 1..Len(value) : value[i] \in OtherLabels(date_prefix)}

\* C15: in extract_date, when a matched candidate holds one or more labels of
\* the stop list other than the field being extracted, the returned value is
\* the candidate text before the first such label occurring in the candidate;
\* so a value returned by extract_date holds no other label of the stop list.
C15_CutAtFirstLabel ==
    (call.fn = "extract_date" /\ result.returned) =>
        LET at == LabelsIn(call.arg, "Closing Date")
        IN /\ at # {} =>
                 result.value =
                     strip(SubSeq(call.arg, 1, (CHOOSE i \in at : \A j \in at : i <= j) - 1))
           /\ LabelsIn(result.value, "Closing Date") = {}

\* the detail step read a heading: the page loaded and has the container, the
\* active tab and an h3 in it
HeadingRead(page) == DetailParsed(page) /\ page.h3 # NoMatch

\* C16 as stated: the merge keeps the stub's fields: every record has
\* New = true, the URL of its card and the Title read from that card's link,
\* whatever the detail page holds.
C16_MergeKeepsStub ==
    \A k \in 1..Len(tenders) :
        k <= Len(LinkedNewSeen) =>
            /\ tenders[k]["New"] = TRUE
            /\ tenders[k]["URL"] = stub(base_url, LinkedNewSeen[k].card)["URL"]
            /\ tenders[k]["Title"] = stub(base_url, LinkedNewSeen[k].card)["Title"]

\* C16: every record has New = true and the URL resolved from its card's
\* link; the Title of a record just merged is the heading of the detail page
\* when the detail step read one, and the text of the card's link otherwise.
C16_MergeKeepsUrlAndNew ==
    /\ \A k \in 1..Len(tenders) :
          k <= Len(LinkedNewSeen) =>
              /\ tenders[k]["New"] = TRUE
              /\ tenders[k]["URL"] = stub(base_url, LinkedNewSeen[k].card)["URL"]
    /\ pc = "sleep" =>
          LastTender["Title"] =
              IF HeadingRead(last_detail) THEN clean_value(strip(last_detail.h3[1]))
              ELSE stub(base_url, CurrentCard)["Title"]

\* a record has just been merged with a detail page that has a heading, and
\* holds the heading, not the text of the card's link
C16_Witness ==
    /\ pc = "sleep"
    /\ HeadingRead(last_detail)
    /\ LastTender["Title"] = <<"Detail", " ", "Heading">>
    /\ LastTender["Title"] # stub(base_url, CurrentCard)["Title"]
    /\ LastTender["URL"] = stub(base_url, CurrentCard)["URL"]

\* scrape_tenders is running
Running == pc \in {"fetch", "cards", "sleep"}

\* the steps one listing page can take: its fetch, two per card (the detail
\* fetch and the sleep) and the step that leaves the page
PageWork == 2 * MaxCards + 2

\* an upper bound of the steps scrape_tenders has left
Rank ==
    CASE pc = "request" -> page_limit * PageWork + 1
      [] pc = "fetch" -> (page_limit - page_num) * PageWork + PageWork
      [] pc = "cards" ->
            (page_limit - page_num) * PageWork + 2 * (Len(tender_cards) - card_idx + 1) + 1
      [] pc = "sleep" ->
            (page_limit - page_num) * PageWork + 2 * (Len(tender_cards) - card_idx + 1)
      [] OTHER -> 0

C14_RankPositive == [](Running => Rank > 0)

C14_RankDecreases == [][Rank' < Rank]_vars

\* the only failure is the constructor's, before scrape_tenders is called
C14_NeverRaises == [](pc = "failed" => handler = "app" /\ list_fetches = 0)

C14_ReachesDone == (pc = "fetch") ~> (pc = "done")

\* C14: provided every fetch returns or fails and every listing page holds
\* finitely many cards, every crawl reaches Done: scrape_tenders returns its
\* result sequence without raising, whatever the pages hold, whichever
\* containers are missing and whichever fetches fail. Each step of the crawl
\* lowers a bound of the steps left that stays positive while it runs.
C14_EveryCrawlReachesDone ==
    /\ C14_RankPositive
    /\ C14_RankDecreases
    /\ C14_NeverRaises
    /\ C14_ReachesDone

\* a crawl that went through every page up to the limit has returned
C14_Witness ==
    /\ pc = "done"
    /\ list_fetches = page_limit
    /\ Len(tenders) = page_limit
    /\ failed_at = 0

====
